---- MODULE Spec2Model ----
(***************************************************************************)
(* Model of the attendance check-in client.                                *)
(*                                                                         *)
(*   - lib/location (getDeviceLocation and its helpers): the three-tier    *)
(*     geolocation ladder, the retry rule and the error mapping;           *)
(*   - components/UserView: the check-in view, its camera, its location    *)
(*     check, network-location, save and delete handlers;                  *)
(*   - components/AdminView and components/UserHistoryPanel: the status    *)
(*     shown for a record in the daily listing and in the history, and the *)
(*     loading of the day selected in the admin view;                      *)
(*   - hooks/useAuth and components/AuthScreen: the session of the user.   *)
(*                                                                         *)
(* Nine specifications are defined:                                         *)
(*   SpecGeo  one caller invoking getDeviceLocation over and over, against *)
(*            every answer the device can give, with the attempts of the   *)
(*            call recorded;                                               *)
(*   Spec     the check-in view, with the user's actions and the device    *)
(*            and network completions interleaved;                         *)
(*   SpecCall  the camera and the save of the check-in view, with the save *)
(*            handler also called while no still is held;                  *)
(*   SpecAdmin  the admin listings over the records, zones and cutoffs the *)
(*            server can hold, with the cutoff changed by the admin;       *)
(*   SpecListing  the daily listing over rosters and days of several       *)
(*            records, with the filter changed by the admin;               *)
(*   SpecHistory  the history of a user over the statistics the server can *)
(*            answer with;                                                 *)
(*   SpecDates  the admin view loading the day the admin selects, several  *)
(*            loads in flight at once;                                     *)
(*   SpecAuth  the session: its restoration at startup, login, logout and  *)
(*            an authenticated call answered by the server;                *)
(*   SpecLive  the camera, the save and the delete of the check-in view,   *)
(*            where every awaited request eventually settles.              *)
(***************************************************************************)
EXTENDS Integers, Sequences, FiniteSets, TLC

\* ------------------------------------------------------------------ bounds

\* Number of distinct fixes the device can deliver.
MaxFix == 1

\* ------------------------------------------------------- platform constants

\* GeolocationPositionError.PERMISSION_DENIED / POSITION_UNAVAILABLE / TIMEOUT
PERMISSION_DENIED == 1
POSITION_UNAVAILABLE == 2
TIMEOUT == 3

\* An optional value: None for null / undefined, Some(x) for a value x.
None == <<>>
Some(x) == <<x>>
Get(o) == o[1]

\* ------------------------------------------------------------------- state

VARIABLES
  \* the browser context and the geolocation device
  env,              \* navigator.geolocation, isSecureContext, hostname
  geoPc,            \* per caller: 0 no call in flight, 1..3 the tier awaited
  watches,          \* callers whose watchPosition registration is live
  clearCalls,       \* per caller: clearWatch calls on its latest watch
  \* the record of the direct caller's calls (SpecGeo, SpecCall)
  gIssued,          \* tiers whose device request was issued, in order
  gOptions,         \* the options those requests were issued with, in order
  gErrs,            \* the errors the tiers were rejected with, in order
  gResult,          \* how the call settled
  saveSkipped,      \* a direct call of handleUploadAndSave returned at its guard
  \* UserView state
  mounted,
  loading,          \* today's-record fetch in flight
  attendance,
  cameraOpen,
  snapshot,
  mediaDevices,     \* navigator.mediaDevices.getUserMedia exists
  streamRef,        \* streamRef.current holds a stream
  camPending,       \* the getUserMedia request of the current camera effect
  camStale,         \* a getUserMedia request of a cleaned-up effect is pending
  liveStreams,      \* streams delivered whose tracks have not been stopped
  uploading,
  error,
  location,
  locationError,
  locationChecking,
  locationSource,
  \* handlers in flight
  netPending,       \* useNetworkLocation awaits GET /location/ip
  savePc,           \* handleUploadAndSave: idle, locating, uploading, creating
  saveCl,           \* the state handleUploadAndSave closed over
  saveLoc,          \* its resolvedLocation
  saveBody,         \* the body of its POST /attendance, once issued
  delPending,       \* handleDelete awaits DELETE /attendance/:id
  delId,            \* the id in its path (0 when none is awaited)
  \* the record-storage collaborator
  todayItems,       \* the items GET /attendance/today answers with
  srvRecords,       \* the ids of today's records of the user on the server
  \* the admin listings (SpecAdmin)
  hourCycle,        \* the hour cycle Intl resolves for en-US with hour12: false
  systemOffset,     \* the system time zone, as minutes east of UTC
  srvItems,         \* the records the server holds for the listed day or user
  srvUsers,         \* the roster the server holds
  srvStats,         \* the statistics the server answers a history with, if any
  srvCutoff,        \* the cutoff the server holds, if it sends one
  cutoffTime,       \* AdminView state
  items,            \* AdminView state: the day's records
  attendanceRows,   \* AdminView memo: the status shown for each record
  historyItems,     \* UserHistoryPanel state: the month's records
  historyRows,      \* UserHistoryPanel: the status shown for each record
  roster,           \* AdminView state
  filter,           \* AdminView state
  rows,             \* AdminView memo: the rows listed under the filter
  stats,            \* UserHistoryPanel state
  selectedDate,     \* AdminView state
  dayPending,       \* the dates whose GET /admin/attendance is unanswered
  adminError,       \* AdminView state: error
  \* the session (SpecAuth)
  user,             \* useAuth state
  token,            \* useAuth state
  authLoading,      \* useAuth state: loading
  stored,           \* the localStorage entry attendance_token
  mePending,        \* the token whose GET /me of the startup load is unanswered
  submitting,       \* AuthScreen state
  logoutPending,    \* the tokens of the logout calls awaiting POST /auth/logout
  callPending,      \* the token of the view's unanswered call
  callError,        \* the error the view shows for its call
  issued,           \* how many tokens the server has issued
  srvSessions       \* the tokens the server accepts

deviceVars == <<env, geoPc, watches, clearCalls>>
traceVars == <<gIssued, gOptions, gErrs, gResult, saveSkipped>>
cameraVars ==
  <<cameraOpen, snapshot, mediaDevices, streamRef, camPending, camStale, liveStreams>>
streamVars == <<streamRef, camPending, camStale, liveStreams>>
deleteVars == <<delPending, delId>>
serverVars == <<todayItems, srvRecords>>
locationVars == <<location, locationError, locationChecking, locationSource>>
saveVars == <<savePc, saveCl, saveLoc, saveBody>>
viewVars ==
  <<mounted, loading, attendance, cameraVars, uploading, error, locationVars,
    netPending, saveVars, deleteVars, serverVars>>
adminVars ==
  <<hourCycle, systemOffset, srvItems, srvUsers, srvStats, srvCutoff, cutoffTime,
    items, attendanceRows, historyItems, historyRows, roster, filter, rows, stats>>
\* what the steps of the check-in view leave alone
dateVars == <<selectedDate, dayPending, adminError>>
authVars ==
  <<user, token, authLoading, stored, mePending, submitting, logoutPending,
    callPending, callError, issued, srvSessions>>
otherVars == <<dateVars, authVars>>
offstageVars == <<traceVars, adminVars, otherVars>>
vars == <<deviceVars, traceVars, viewVars, adminVars, otherVars>>

\* ------------------------------------------------------------- lib/location

MsgUnsupported == "Geolocation is not supported on this device."
MsgInsecure == "Location requires HTTPS. Please use a secure connection."
MsgDenied == "Location permission denied. Please allow location access and retry."
MsgUnavailable == "Location is unavailable. Check your device GPS and try again."
MsgTimeout == "Location request timed out. Try again in a few seconds."
MsgUnable == "Unable to fetch location."

\* A rejection value of getPosition / getPositionWithWatch.  `code` is <<>>
\* when the value has no code property and <<n>> when its code is n.
GeoError(obj, code, msg) == [object |-> obj, code |-> code, message |-> msg]

ErrDenied == GeoError(TRUE, <<PERMISSION_DENIED>>, TRUE)
ErrUnavailable == GeoError(TRUE, <<POSITION_UNAVAILABLE>>, TRUE)
ErrTimeout == GeoError(TRUE, <<TIMEOUT>>, TRUE)
\* a GeolocationPositionError whose code is none of the three named ones
ErrUnknownCode == GeoError(TRUE, <<0>>, TRUE)
\* an exception thrown by the platform call inside the promise executor
\* (an Error object: a message, no code)
ErrThrown == GeoError(TRUE, <<>>, TRUE)

\* What the promise of one tier can be rejected with: the argument of the
\* platform's error callback, or an exception of the platform call.
DeviceErrors == {ErrDenied, ErrUnavailable, ErrTimeout, ErrUnknownCode, ErrThrown}

\* GeolocationPosition values the device can deliver.  Accuracy is kept in
\* tenths of a metre so that rounding to the metre is visible.
DeviceFixes ==
  { [latitude |-> i, longitude |-> i + MaxFix, accuracy10 |-> 10 * i + 5] : i \in 1..MaxFix }

\* The answers of the device to one request.
DeviceOutcomes ==
  { [ok |-> TRUE, position |-> p] : p \in DeviceFixes }
    \cup { [ok |-> FALSE, error |-> e] : e \in DeviceErrors }

\* navigator.geolocation present, window.isSecureContext, location.hostname
Envs ==
  [geolocation : BOOLEAN, isSecureContext : BOOLEAN,
   hostname : {"localhost", "attendance.example"}]

\* TierOptions with the watch accepting a cached fix, as the coarse request does.
TierOptions_CachedWatch(t) ==
  CASE t = 1 -> [enableHighAccuracy |-> TRUE, timeout |-> 12000, maximumAge |-> 0]
    [] t = 2 -> [enableHighAccuracy |-> TRUE, timeout |-> 20000, maximumAge |-> 60000]
    [] t = 3 -> [enableHighAccuracy |-> FALSE, timeout |-> 20000, maximumAge |-> 60000]

\* Options of the request of tier t.
TierOptions(t) ==
  CASE t = 1 -> [enableHighAccuracy |-> TRUE, timeout |-> 12000, maximumAge |-> 0]
    [] t = 2 -> [enableHighAccuracy |-> TRUE, timeout |-> 20000, maximumAge |-> 0]
    [] t = 3 -> [enableHighAccuracy |-> FALSE, timeout |-> 20000, maximumAge |-> 60000]

\* Math.round of a non-negative number given in tenths.
RoundTenths(x10) == (x10 + 5) \div 10

formatPosition(position) ==
  LET acc == RoundTenths(position.accuracy10)
  IN [label |-> <<"GPS", position.latitude, position.longitude, acc>>,
      latitude |-> position.latitude,
      longitude |-> position.longitude,
      accuracy |-> Some(acc),
      source |-> "gps"]

\* isRetryableError without the permission-denied test.
isRetryableError_AnyObject(err) ==
  /\ err.object
  /\ (Len(err.code) = 1 \/ err.message)

\* isRetryableError that retries only the two recognised retryable codes.
isRetryableError_KnownCodes(err) ==
  /\ err.object
  /\ err.code \in {<<POSITION_UNAVAILABLE>>, <<TIMEOUT>>}

isRetryableError(err) ==
  /\ err.object
  /\ (Len(err.code) = 1 \/ err.message)
  /\ err.code # <<PERMISSION_DENIED>>

\* mapGeoError with the messages of the two retryable codes exchanged.
mapGeoError_Swapped(err) ==
  IF err.object /\ Len(err.code) = 1
  THEN CASE err.code[1] = PERMISSION_DENIED -> MsgDenied
         [] err.code[1] = POSITION_UNAVAILABLE -> MsgTimeout
         [] err.code[1] = TIMEOUT -> MsgUnavailable
         [] OTHER -> MsgUnable
  ELSE MsgUnable

\* mapGeoError that passes the platform's own message on when it knows no
\* message for the code.
mapGeoError_Raw(err) ==
  IF err.object /\ Len(err.code) = 1
  THEN CASE err.code[1] = PERMISSION_DENIED -> MsgDenied
         [] err.code[1] = POSITION_UNAVAILABLE -> MsgUnavailable
         [] err.code[1] = TIMEOUT -> MsgTimeout
         [] OTHER -> "platform message"
  ELSE "platform message"

mapGeoError(err) ==
  IF err.object /\ Len(err.code) = 1
  THEN CASE err.code[1] = PERMISSION_DENIED -> MsgDenied
         [] err.code[1] = POSITION_UNAVAILABLE -> MsgUnavailable
         [] err.code[1] = TIMEOUT -> MsgTimeout
         [] OTHER -> MsgUnable
  ELSE MsgUnable

\* The head of getDeviceLocation without the secure-context guard.
Preflight_NoSecureGuard(e) ==
  IF ~e.geolocation THEN MsgUnsupported ELSE ""

\* The two guards at the head of getDeviceLocation: the message the call is
\* rejected with, or "" when the ladder is entered.
Preflight(e) ==
  IF ~e.geolocation THEN MsgUnsupported
  ELSE IF ~e.isSecureContext /\ e.hostname # "localhost" THEN MsgInsecure
  ELSE ""

\* getDeviceLocation with the coarse request tried before the watch.
getDeviceLocation_CoarseFirst(t, o) ==
  LET resolve(p) == [state |-> "resolved", tier |-> 0,
                     position |-> Some(formatPosition(p)), message |-> ""]
      reject(e) == [state |-> "rejected", tier |-> 0,
                    position |-> None, message |-> mapGeoError(e)]
      await(n) == [state |-> "pending", tier |-> n, position |-> None, message |-> ""]
  IN CASE t = 1 -> IF o.ok THEN resolve(o.position)
                   ELSE IF isRetryableError(o.error) THEN await(3)
                   ELSE reject(o.error)
       [] t = 3 -> IF o.ok THEN resolve(o.position)
                   ELSE IF isRetryableError(o.error) THEN await(2)
                   ELSE reject(o.error)
       [] t = 2 -> IF o.ok THEN resolve(o.position)
                   ELSE reject(o.error)

\* The try/catch chain of getDeviceLocation: what the call does when the
\* request of tier t settles with outcome o.  tier is the tier awaited next
\* (0 when the call has settled).
getDeviceLocation(t, o) ==
  LET resolve(p) == [state |-> "resolved", tier |-> 0,
                     position |-> Some(formatPosition(p)), message |-> ""]
      reject(e) == [state |-> "rejected", tier |-> 0,
                    position |-> None, message |-> mapGeoError(e)]
      await(n) == [state |-> "pending", tier |-> n, position |-> None, message |-> ""]
  IN CASE t = 1 -> IF o.ok THEN resolve(o.position)
                   ELSE IF isRetryableError(o.error) THEN await(2)
                   ELSE reject(o.error)
       [] t = 2 -> IF o.ok THEN resolve(o.position)
                   ELSE IF isRetryableError(o.error) THEN await(3)
                   ELSE reject(o.error)
       [] t = 3 -> IF o.ok THEN resolve(o.position)
                   ELSE reject(o.error)

\* navigator.geolocation.watchPosition / clearWatch on the set of live watches
watchPosition(ws, c) == ws \cup {c}
clearWatch(ws, c) == ws \ {c}

\* Who calls getDeviceLocation: the direct caller of SpecGeo, and the two
\* handlers of the view, checkLocation and handleUploadAndSave.
Callers == {"direct", "check", "save"}

\* Caller c enters the ladder: getPosition of tier 1 is issued.
LadderEnter(c) ==
  /\ geoPc' = [geoPc EXCEPT ![c] = 1]
  /\ clearCalls' = [clearCalls EXCEPT ![c] = 0]
  /\ UNCHANGED <<env, watches>>

\* The request caller c awaits settles with o and the call goes on as r says.
\* getPositionWithWatch clears its watch in both of its callbacks.
LadderStep(c, r) ==
  /\ geoPc' = [geoPc EXCEPT ![c] = r.tier]
  /\ watches' = IF geoPc[c] = 2 THEN clearWatch(watches, c)
                ELSE IF r.tier = 2 THEN watchPosition(watches, c)
                ELSE watches
  /\ clearCalls' = IF geoPc[c] = 2 THEN [clearCalls EXCEPT ![c] = @ + 1]
                   ELSE clearCalls
  /\ UNCHANGED env

DeviceInit ==
  /\ geoPc = [c \in Callers |-> 0]
  /\ watches = {}
  /\ clearCalls = [c \in Callers |-> 0]

\* ------------------------------------------------ SpecGeo: the ladder alone

NoResult == [state |-> "none", tier |-> 0, position |-> None, message |-> ""]

TraceInit ==
  /\ gIssued = <<>>
  /\ gOptions = <<>>
  /\ gErrs = <<>>
  /\ gResult = NoResult
  /\ saveSkipped = FALSE

\* getDeviceLocation() is called; the previous call has settled.
DirectCall ==
  /\ geoPc["direct"] = 0
  /\ gErrs' = <<>>
  /\ IF Preflight(env) # ""
     THEN /\ gResult' = [state |-> "rejected", tier |-> 0,
                         position |-> None, message |-> Preflight(env)]
          /\ gIssued' = <<>>
          /\ gOptions' = <<>>
          /\ UNCHANGED deviceVars
     ELSE /\ gResult' = [state |-> "pending", tier |-> 1,
                         position |-> None, message |-> ""]
          /\ gIssued' = <<1>>
          /\ gOptions' = <<TierOptions(1)>>
          /\ LadderEnter("direct")
  /\ UNCHANGED <<saveSkipped, viewVars, adminVars, otherVars>>

\* The device answers the request the direct call awaits.
DirectSettle(o) ==
  /\ geoPc["direct"] \in 1..3
  /\ LET r == getDeviceLocation(geoPc["direct"], o)
     IN /\ LadderStep("direct", r)
        /\ gResult' = r
        /\ gIssued' = IF r.state = "pending" THEN Append(gIssued, r.tier) ELSE gIssued
        /\ gOptions' = IF r.state = "pending"
                       THEN Append(gOptions, TierOptions(r.tier))
                       ELSE gOptions
        /\ gErrs' = IF o.ok THEN gErrs ELSE Append(gErrs, o.error)
  /\ UNCHANGED <<saveSkipped, viewVars, adminVars, otherVars>>

\* ------------------------------------------------- components/UserView

\* locationSource when it is null
Null == "null"

\* The bodies of a response that is not ok: with an error field or without
\* (a body that is no JSON is read as {}).
ErrorBodies == {[error |-> None], [error |-> Some("server-provided message")]}

\* The message apiRequest throws with: the body's error field, or the default.
apiError(errorBody) ==
  IF errorBody.error # None THEN Get(errorBody.error) ELSE "Request failed"

\* Messages of a failed apiRequest.
ApiErrors == {apiError(errorBody) : errorBody \in ErrorBodies}

\* canvas.toDataURL of the captured frame
Still == "data:image/jpeg"

\* Answers of POST /uploads/photo
UploadResponses == {[url |-> "https://cdn/photo", publicId |-> "photo-id"]}

\* Answers of GET /location/ip: a label, and coordinates that may be absent.
\* Network coordinates are negative, device coordinates positive, so that a
\* position shows which path its coordinates came from.
NetResponses ==
  { [label |-> <<"IP">>, latitude |-> la, longitude |-> lo] :
      la \in {None, Some(-1)}, lo \in {None, Some(-2)} }

\* A record of an earlier visit of the day, if the server holds one.
ExistingRecord ==
  [id |-> 1, locationLabel |-> <<"earlier">>, latitude |-> None, longitude |-> None,
   accuracy |-> None, photoUrl |-> "https://cdn/earlier"]

\* The record POST /attendance answers with: the server assigns the id and
\* either echoes the position, or corrects the label and leaves the
\* coordinates out.
CreatedRecord(id, body, echo) ==
  [id |-> id,
   locationLabel |-> IF echo THEN body.locationLabel ELSE <<"corrected">>,
   latitude |-> IF echo THEN Some(body.latitude) ELSE None,
   longitude |-> IF echo THEN Some(body.longitude) ELSE None,
   accuracy |-> IF echo THEN body.accuracy ELSE None,
   photoUrl |-> body.photoUrl]

\* The record-storage collaborator holds the day's records of the user; the
\* model keeps their ids.  GET /attendance/today is issued when the view
\* mounts and answered from the records held then.
TodayAnswers == {<<>>, <<ExistingRecord>>}

\* The id POST /attendance assigns: the least one no held record carries.
ServerFreshId(ids) ==
  CHOOSE i \in 1..(Cardinality(ids) + 1) :
    i \notin ids /\ \A j \in 1..(i - 1) : j \in ids

\* POST /attendance stores the record it answers with.
ServerCreate(ids, record) == ids \cup {record.id}

\* DELETE /attendance/:id
ServerDelete(ids, id) == ids \ {id}

\* a ?? b on optional values
Coalesce(a, b) == IF a # None THEN a ELSE b

NoClosure == [locationSource |-> Null, snapshot |-> None]

ViewInit ==
  /\ mounted = TRUE
  /\ loading = TRUE
  /\ attendance = None
  /\ cameraOpen = FALSE
  /\ snapshot = None
  /\ mediaDevices \in BOOLEAN
  /\ streamRef = FALSE
  /\ camPending = FALSE
  /\ camStale = FALSE
  /\ liveStreams = 0
  /\ uploading = FALSE
  /\ error = ""
  /\ location = None
  /\ locationError = ""
  /\ locationChecking = FALSE
  /\ locationSource = Null
  /\ netPending = FALSE
  /\ savePc = "idle"
  /\ saveCl = NoClosure
  /\ saveLoc = None
  /\ saveBody = None
  /\ delPending = FALSE
  /\ delId = 0
  /\ todayItems \in TodayAnswers
  /\ srvRecords = {todayItems[i].id : i \in DOMAIN todayItems}

\* The view is checked in three browser contexts, one for each way the head
\* of getDeviceLocation can go (SpecGeo runs through all of Envs).
ViewEnvs ==
  { e \in Envs : e.hostname = "attendance.example"
                 /\ (e.geolocation \/ e.isSecureContext) }

\* The answers of the device the view is checked against: a fix, the error
\* that ends the ladder and one that escalates it (SpecGeo runs through all
\* of DeviceOutcomes).
ViewOutcomes ==
  { o \in DeviceOutcomes : o.ok \/ o.error \in {ErrDenied, ErrTimeout} }

\* --- today's record (the effect on token)

TodayLoaded ==
  /\ loading
  /\ attendance' = IF todayItems # <<>> THEN Some(todayItems[1]) ELSE None
  /\ loading' = FALSE
  /\ UNCHANGED <<deviceVars, offstageVars, mounted, cameraVars, uploading, error,
                 locationVars, netPending, saveVars, deleteVars, serverVars>>

TodayFailed(msg) ==
  /\ loading
  /\ error' = msg
  /\ loading' = FALSE
  /\ UNCHANGED <<deviceVars, offstageVars, mounted, attendance, cameraVars, uploading,
                 locationVars, netPending, saveVars, deleteVars, serverVars>>

\* --- camera

MsgNoCamera == "Camera not supported in this browser."
MsgCameraAccess == "Unable to access camera. Check permissions."

\* StopTracks leaving the tracks running.
StopTracks_LeavesRunning(live) == live

\* track.stop() on every track of one of the live streams
StopTracks(live) == live - 1

\* stopStream: the tracks of the held stream are stopped and the reference
\* is dropped.
stopStream(ref, live) ==
  [streamRef |-> FALSE, liveStreams |-> IF ref THEN StopTracks(live) ELSE live]

\* The cleanup of the camera effect: its request, if still awaited, will
\* find active false, and stopStream runs.  stale tells whether a request
\* of an earlier effect is still awaited.
CameraCleanup(stale) ==
  /\ camStale' = (stale \/ camPending)
  /\ camPending' = FALSE
  /\ streamRef' = stopStream(streamRef, liveStreams).streamRef
  /\ liveStreams' = stopStream(streamRef, liveStreams).liveStreams

\* setCameraOpen(false) and the effect run it triggers.
CloseCamera(stale) ==
  /\ cameraOpen' = FALSE
  /\ IF cameraOpen
     THEN CameraCleanup(stale)
     ELSE camStale' = stale /\ UNCHANGED <<streamRef, camPending, liveStreams>>

\* setCameraOpen(true) and the effect run it triggers: getUserMedia is
\* called, or, where it is missing, the error is set and the camera closed
\* again.  msg is what the handler left in error.
OpenCamera(msg) ==
  IF cameraOpen
  THEN error' = msg /\ UNCHANGED <<cameraOpen, streamVars>>
  ELSE IF mediaDevices
  THEN /\ cameraOpen' = TRUE
       /\ camPending' = TRUE
       /\ error' = msg
       /\ UNCHANGED <<streamRef, camStale, liveStreams>>
  ELSE /\ cameraOpen' = FALSE
       /\ error' = MsgNoCamera
       /\ UNCHANGED streamVars

toggleCamera ==
  /\ mounted
  /\ ~(attendance # None \/ uploading)          \* the button is enabled
  /\ IF cameraOpen
     THEN error' = "" /\ CloseCamera(camStale) /\ UNCHANGED snapshot
     ELSE snapshot' = None /\ OpenCamera("")
  /\ UNCHANGED <<mediaDevices, deviceVars, offstageVars, mounted, loading,
                 attendance, uploading, locationVars, netPending, saveVars,
                 deleteVars, serverVars>>

\* capturePhoto that leaves the camera open.
capturePhoto_KeepsOpen ==
  /\ mounted
  /\ cameraOpen
  /\ snapshot' = Some(Still)
  /\ UNCHANGED <<cameraOpen, streamVars, mediaDevices, deviceVars, offstageVars,
                 mounted, loading, attendance, uploading, error, locationVars,
                 netPending, saveVars, deleteVars, serverVars>>

capturePhoto ==
  /\ mounted
  /\ cameraOpen                                  \* the button is rendered
  /\ snapshot' = Some(Still)
  /\ CloseCamera(camStale)
  /\ UNCHANGED <<mediaDevices, deviceVars, offstageVars, mounted, loading,
                 attendance, uploading, error, locationVars, netPending, saveVars,
                 deleteVars, serverVars>>

handleRetake ==
  /\ mounted
  /\ snapshot # None /\ attendance = None        \* the button is rendered
  /\ ~uploading                                  \* and enabled
  /\ snapshot' = None
  /\ OpenCamera(error)
  /\ UNCHANGED <<mediaDevices, deviceVars, offstageVars, mounted, loading, attendance,
                 uploading, locationVars, netPending, saveVars, deleteVars, serverVars>>

\* getUserMedia of the current effect delivers its stream.
CameraStream ==
  /\ camPending
  /\ camPending' = FALSE
  /\ streamRef' = TRUE
  /\ liveStreams' = liveStreams + 1
  /\ UNCHANGED <<deviceVars, offstageVars, mounted, loading, attendance, cameraOpen,
                 snapshot, mediaDevices, camStale, uploading, error, locationVars,
                 netPending, saveVars, deleteVars, serverVars>>

\* getUserMedia of the current effect is rejected.
CameraFailed ==
  /\ camPending
  /\ error' = MsgCameraAccess
  /\ cameraOpen' = FALSE
  /\ camPending' = FALSE
  /\ streamRef' = stopStream(streamRef, liveStreams).streamRef
  /\ liveStreams' = stopStream(streamRef, liveStreams).liveStreams
  /\ UNCHANGED <<deviceVars, offstageVars, mounted, loading, attendance, snapshot,
                 mediaDevices, camStale, uploading, locationVars, netPending, saveVars,
                 deleteVars, serverVars>>

\* getUserMedia of a cleaned-up effect delivers its stream: active is false
\* and the tracks are stopped on arrival.  more tells whether a request of
\* another cleaned-up effect is still awaited.
StaleStream(more) ==
  /\ camStale
  /\ camStale' = more
  /\ liveStreams' = StopTracks(liveStreams + 1)
  /\ UNCHANGED <<deviceVars, offstageVars, mounted, loading, attendance, cameraOpen,
                 snapshot, mediaDevices, streamRef, camPending, uploading, error,
                 locationVars, netPending, saveVars, deleteVars, serverVars>>

\* getUserMedia of a cleaned-up effect is rejected: its catch does not look
\* at active.
StaleFailed(more) ==
  /\ camStale
  /\ error' = MsgCameraAccess
  /\ CloseCamera(more)
  /\ UNCHANGED <<deviceVars, offstageVars, mounted, loading, attendance, snapshot,
                 mediaDevices, uploading, locationVars, netPending, saveVars,
                 deleteVars, serverVars>>

\* --- checkLocation

\* The catch and finally blocks of checkLocation.
CheckFailed(msg) ==
  /\ location' = None
  /\ locationSource' = Null
  /\ locationError' = msg
  /\ locationChecking' = FALSE

checkLocation ==
  /\ mounted
  /\ attendance = None                           \* the button is rendered
  /\ ~(locationChecking \/ uploading)            \* and enabled
  /\ IF Preflight(env) # ""
     THEN /\ CheckFailed(Preflight(env))
          /\ UNCHANGED deviceVars
     ELSE /\ locationChecking' = TRUE
          /\ locationError' = ""
          /\ LadderEnter("check")
          /\ UNCHANGED <<location, locationSource>>
  /\ UNCHANGED <<offstageVars, mounted, loading, attendance, cameraVars, uploading, error,
                 netPending, saveVars, deleteVars, serverVars>>

\* CheckSettle with the network-location request chained to a failed ladder.
CheckSettle_ChainsNetwork(o) ==
  /\ geoPc["check"] \in 1..3
  /\ LET r == getDeviceLocation(geoPc["check"], o)
     IN /\ LadderStep("check", r)
        /\ CASE r.state = "pending" -> UNCHANGED <<locationVars, netPending>>
             [] r.state = "resolved" ->
                  /\ location' = r.position
                  /\ locationSource' = "gps"
                  /\ locationChecking' = FALSE
                  /\ UNCHANGED <<locationError, netPending>>
             [] r.state = "rejected" ->
                  /\ location' = None
                  /\ locationSource' = Null
                  /\ locationError' = ""
                  /\ locationChecking' = TRUE
                  /\ netPending' = TRUE
  /\ UNCHANGED <<offstageVars, mounted, loading, attendance, cameraVars, uploading, error,
                 saveVars, deleteVars, serverVars>>

\* The device answers the request checkLocation's call awaits.
CheckSettle(o) ==
  /\ geoPc["check"] \in 1..3
  /\ LET r == getDeviceLocation(geoPc["check"], o)
     IN /\ LadderStep("check", r)
        /\ CASE r.state = "pending" -> UNCHANGED locationVars
             [] r.state = "resolved" ->
                  /\ location' = r.position
                  /\ locationSource' = "gps"
                  /\ locationChecking' = FALSE
                  /\ UNCHANGED locationError
             [] r.state = "rejected" -> CheckFailed(r.message)
  /\ UNCHANGED <<offstageVars, mounted, loading, attendance, cameraVars, uploading, error,
                 netPending, saveVars, deleteVars, serverVars>>

\* --- useNetworkLocation

useNetworkLocation ==
  /\ mounted
  /\ attendance = None /\ locationError # ""     \* the button is rendered
  /\ ~(locationChecking \/ uploading)            \* and enabled
  /\ locationChecking' = TRUE
  /\ locationError' = ""
  /\ netPending' = TRUE
  /\ UNCHANGED <<deviceVars, offstageVars, mounted, loading, attendance, cameraVars,
                 uploading, error, location, locationSource, saveVars, deleteVars,
                 serverVars>>

\* NetLoaded with a missing coordinate filled in with 0.
NetLoaded_FillsIn(data) ==
  /\ netPending
  /\ location' = Some([label |-> data.label,
                       latitude |-> Get(Coalesce(data.latitude, Some(0))),
                       longitude |-> Get(Coalesce(data.longitude, Some(0))),
                       accuracy |-> None,
                       source |-> "network"])
  /\ locationSource' = "network"
  /\ locationChecking' = FALSE
  /\ netPending' = FALSE
  /\ UNCHANGED <<deviceVars, offstageVars, mounted, loading, attendance, cameraVars,
                 uploading, error, locationError, saveVars, deleteVars, serverVars>>

\* GET /location/ip answered.

NetLoaded(data) ==
  /\ netPending
  /\ location' = IF data.latitude # None /\ data.longitude # None
                 THEN Some([label |-> data.label,
                            latitude |-> Get(data.latitude),
                            longitude |-> Get(data.longitude),
                            accuracy |-> None,
                            source |-> "network"])
                 ELSE None
  /\ locationSource' = "network"
  /\ locationChecking' = FALSE
  /\ netPending' = FALSE
  /\ UNCHANGED <<deviceVars, offstageVars, mounted, loading, attendance, cameraVars,
                 uploading, error, locationError, saveVars, deleteVars, serverVars>>

NetFailed(msg) ==
  /\ netPending
  /\ location' = None
  /\ locationSource' = Null
  /\ locationError' = msg
  /\ locationChecking' = FALSE
  /\ netPending' = FALSE
  /\ UNCHANGED <<deviceVars, offstageVars, mounted, loading, attendance, cameraVars,
                 uploading, error, saveVars, deleteVars, serverVars>>

\* --- handleUploadAndSave

\* SaveRequest with the captured still sent as the photo reference.
SaveRequest_SendsSnapshot(resolved, upload) ==
  [locationLabel |-> resolved.label,
   latitude |-> resolved.latitude,
   longitude |-> resolved.longitude,
   accuracy |-> resolved.accuracy,
   photoUrl |-> Still,
   photoPublicId |-> ""]

\* The body of POST /attendance
SaveRequest(resolved, upload) ==
  [locationLabel |-> resolved.label,
   latitude |-> resolved.latitude,
   longitude |-> resolved.longitude,
   accuracy |-> resolved.accuracy,
   photoUrl |-> upload.url,
   photoPublicId |-> upload.publicId]

\* The position the view holds after a save: the record's label, the
\* record's coordinates or else the resolved ones, and the source the
\* handler closed over (gps when that was null).
SavedLocation(record, resolved, closedSource) ==
  [label |-> record.locationLabel,
   latitude |-> Get(Coalesce(record.latitude, Some(resolved.latitude))),
   longitude |-> Get(Coalesce(record.longitude, Some(resolved.longitude))),
   accuracy |-> Coalesce(record.accuracy, resolved.accuracy),
   source |-> IF closedSource # Null THEN closedSource ELSE "gps"]

\* resolvedLocation is known: locationSource is set if the closure saw none,
\* and the upload request is issued.
SaveLocated(resolved, closedSource) ==
  /\ saveLoc' = resolved
  /\ locationSource' = IF closedSource = Null THEN "gps" ELSE locationSource
  /\ savePc' = "uploading"
  /\ saveBody' = None

\* The catch block of the location step without setUploading(false).
SaveLocationFailed_LeavesUploading(msg) ==
  /\ error' = msg
  /\ locationError' = msg
  /\ uploading' = uploading
  /\ savePc' = "idle"
  /\ saveCl' = NoClosure
  /\ saveLoc' = None
  /\ saveBody' = None

\* The catch block of the location step: the handler returns, and what it
\* closed over is dropped with it.
SaveLocationFailed(msg) ==
  /\ error' = msg
  /\ locationError' = msg
  /\ uploading' = FALSE
  /\ savePc' = "idle"
  /\ saveCl' = NoClosure
  /\ saveLoc' = None
  /\ saveBody' = None

\* The location step calls getDeviceLocation whether a position is held or not.
handleUploadAndSave_AlwaysLocates ==
  /\ mounted
  /\ snapshot # None /\ attendance = None
  /\ ~uploading
  /\ IF Preflight(env) # ""
     THEN /\ SaveLocationFailed(Preflight(env))
          /\ UNCHANGED <<deviceVars, locationSource>>
     ELSE /\ saveCl' = [locationSource |-> locationSource, snapshot |-> snapshot]
          /\ uploading' = TRUE
          /\ error' = ""
          /\ savePc' = "locating"
          /\ LadderEnter("save")
          /\ UNCHANGED <<saveLoc, saveBody, locationError, locationSource>>
  /\ UNCHANGED <<offstageVars, mounted, loading, attendance, cameraVars, location,
                 locationChecking, netPending, deleteVars, serverVars>>

handleUploadAndSave ==
  /\ mounted
  /\ snapshot # None /\ attendance = None        \* the button is rendered
  /\ ~uploading                                  \* and enabled
  /\ IF location # None
     THEN /\ saveCl' = [locationSource |-> locationSource, snapshot |-> snapshot]
          /\ SaveLocated(location, locationSource)
          /\ uploading' = TRUE
          /\ error' = ""
          /\ UNCHANGED <<deviceVars, locationError>>
     ELSE IF Preflight(env) # ""
     THEN /\ SaveLocationFailed(Preflight(env))
          /\ UNCHANGED <<deviceVars, locationSource>>
     ELSE /\ saveCl' = [locationSource |-> locationSource, snapshot |-> snapshot]
          /\ uploading' = TRUE
          /\ error' = ""
          /\ savePc' = "locating"
          /\ LadderEnter("save")
          /\ UNCHANGED <<saveLoc, saveBody, locationError, locationSource>>
  /\ UNCHANGED <<offstageVars, mounted, loading, attendance, cameraVars, location,
                 locationChecking, netPending, deleteVars, serverVars>>

\* handleUploadAndSave called while no still is held: the call returns at its
\* guard.  The button that calls the handler is rendered only while a still is
\* held, so this is a call made past the button.
DirectSave ==
  /\ mounted
  /\ snapshot = None
  /\ saveSkipped' = TRUE
  /\ UNCHANGED <<deviceVars, gIssued, gOptions, gErrs, gResult, viewVars, adminVars,
                 otherVars>>

\* SaveGeoSettle going on to the upload, with a placeholder position, when
\* the ladder has failed.
SaveGeoSettle_UploadsAnyway(o) ==
  /\ savePc = "locating"
  /\ geoPc["save"] \in 1..3
  /\ LET r == getDeviceLocation(geoPc["save"], o)
     IN /\ LadderStep("save", r)
        /\ CASE r.state = "pending" ->
                  UNCHANGED <<savePc, saveCl, saveLoc, saveBody, locationSource,
                              locationError, error, uploading>>
             [] r.state = "resolved" ->
                  /\ SaveLocated(r.position, saveCl.locationSource)
                  /\ UNCHANGED <<saveCl, locationError, error, uploading>>
             [] r.state = "rejected" ->
                  /\ SaveLocated(Some([label |-> <<"Unknown">>, latitude |-> 0,
                                       longitude |-> 0, accuracy |-> None,
                                       source |-> "gps"]),
                                 saveCl.locationSource)
                  /\ UNCHANGED <<saveCl, locationError, error, uploading>>
  /\ UNCHANGED <<offstageVars, mounted, loading, attendance, cameraVars, location,
                 locationChecking, netPending, deleteVars, serverVars>>

\* The device answers the request handleUploadAndSave's call awaits.
SaveGeoSettle(o) ==
  /\ savePc = "locating"
  /\ geoPc["save"] \in 1..3
  /\ LET r == getDeviceLocation(geoPc["save"], o)
     IN /\ LadderStep("save", r)
        /\ CASE r.state = "pending" ->
                  UNCHANGED <<savePc, saveCl, saveLoc, saveBody, locationSource,
                              locationError, error, uploading>>
             [] r.state = "resolved" ->
                  /\ SaveLocated(r.position, saveCl.locationSource)
                  /\ UNCHANGED <<saveCl, locationError, error, uploading>>
             [] r.state = "rejected" ->
                  /\ SaveLocationFailed(r.message)
                  /\ UNCHANGED locationSource
  /\ UNCHANGED <<offstageVars, mounted, loading, attendance, cameraVars, location,
                 locationChecking, netPending, deleteVars, serverVars>>

\* POST /uploads/photo answered: POST /attendance is issued.
UploadDone(upload) ==
  /\ savePc = "uploading"
  /\ savePc' = "creating"
  /\ saveBody' = Some(SaveRequest(Get(saveLoc), upload))
  /\ UNCHANGED <<deviceVars, offstageVars, mounted, loading, attendance, cameraVars,
                 uploading, error, locationVars, netPending, saveCl, saveLoc,
                 deleteVars, serverVars>>

\* The catch block also drops the still.
SaveFailed_DropsStill(msg) ==
  /\ savePc \in {"uploading", "creating"}
  /\ error' = msg
  /\ snapshot' = None
  /\ uploading' = FALSE
  /\ savePc' = "idle"
  /\ saveCl' = NoClosure
  /\ saveLoc' = None
  /\ saveBody' = None
  /\ UNCHANGED <<deviceVars, offstageVars, mounted, loading, attendance, cameraOpen,
                 mediaDevices, streamVars, locationVars, netPending, deleteVars,
                 serverVars>>

\* The outer catch and finally blocks of handleUploadAndSave.
SaveFailed(msg) ==
  /\ savePc \in {"uploading", "creating"}
  /\ error' = msg
  /\ uploading' = FALSE
  /\ savePc' = "idle"
  /\ saveCl' = NoClosure
  /\ saveLoc' = None
  /\ saveBody' = None
  /\ UNCHANGED <<deviceVars, offstageVars, mounted, loading, attendance, cameraVars,
                 locationVars, netPending, deleteVars, serverVars>>

\* The record is stored and shown, and the still is kept.
SaveDone_KeepsStill(echo) ==
  /\ savePc = "creating"
  /\ LET record == CreatedRecord(ServerFreshId(srvRecords), Get(saveBody), echo)
     IN /\ srvRecords' = ServerCreate(srvRecords, record)
        /\ attendance' = Some(record)
        /\ location' = Some(SavedLocation(record, Get(saveLoc), saveCl.locationSource))
  /\ uploading' = FALSE
  /\ savePc' = "idle"
  /\ saveCl' = NoClosure
  /\ saveLoc' = None
  /\ saveBody' = None
  /\ UNCHANGED <<deviceVars, offstageVars, mounted, loading, cameraVars, error,
                 locationError, locationChecking, locationSource, netPending,
                 deleteVars, todayItems>>

\* POST /attendance answered with the canonical record.
SaveDone(echo) ==
  /\ savePc = "creating"
  /\ LET record == CreatedRecord(ServerFreshId(srvRecords), Get(saveBody), echo)
     IN /\ srvRecords' = ServerCreate(srvRecords, record)
        /\ attendance' = Some(record)
        /\ location' = Some(SavedLocation(record, Get(saveLoc), saveCl.locationSource))
  /\ snapshot' = None
  /\ uploading' = FALSE
  /\ savePc' = "idle"
  /\ saveCl' = NoClosure
  /\ saveLoc' = None
  /\ saveBody' = None
  /\ UNCHANGED <<deviceVars, offstageVars, mounted, loading, cameraOpen, mediaDevices,
                 streamVars, error, locationError, locationChecking, locationSource,
                 netPending, deleteVars, todayItems>>

\* --- handleDelete

\* handleDelete whose button is not disabled while uploading.
handleDelete_WhileUploading ==
  /\ mounted
  /\ attendance # None
  /\ ~delPending
  /\ uploading' = TRUE
  /\ error' = ""
  /\ delPending' = TRUE
  /\ delId' = Get(attendance).id
  /\ UNCHANGED <<deviceVars, offstageVars, mounted, loading, attendance, cameraVars,
                 locationVars, netPending, saveVars, serverVars>>

handleDelete ==
  /\ mounted
  /\ attendance # None                           \* the button is rendered
  /\ ~uploading                                  \* and enabled
  /\ uploading' = TRUE
  /\ error' = ""
  /\ delPending' = TRUE
  /\ delId' = Get(attendance).id
  /\ UNCHANGED <<deviceVars, offstageVars, mounted, loading, attendance, cameraVars,
                 locationVars, netPending, saveVars, serverVars>>

DeleteDone ==
  /\ delPending
  /\ srvRecords' = ServerDelete(srvRecords, delId)
  /\ attendance' = None
  /\ uploading' = FALSE
  /\ delPending' = FALSE
  /\ delId' = 0
  /\ UNCHANGED <<deviceVars, offstageVars, mounted, loading, cameraVars, error,
                 locationVars, netPending, saveVars, todayItems>>

\* The catch block also empties the slot.
DeleteFailed_ClearsSlot(msg) ==
  /\ delPending
  /\ error' = msg
  /\ attendance' = None
  /\ uploading' = FALSE
  /\ delPending' = FALSE
  /\ delId' = 0
  /\ UNCHANGED <<deviceVars, offstageVars, mounted, loading, cameraVars,
                 locationVars, netPending, saveVars, serverVars>>

DeleteFailed(msg) ==
  /\ delPending
  /\ error' = msg
  /\ uploading' = FALSE
  /\ delPending' = FALSE
  /\ delId' = 0
  /\ UNCHANGED <<deviceVars, offstageVars, mounted, loading, attendance, cameraVars,
                 locationVars, netPending, saveVars, serverVars>>

\* --- the view is torn down (logout, or the page is left)
\* No handler can start afterwards.  The promises in flight still settle and
\* their continuations run: the device and network steps they take are real,
\* and the state they write is that of a component no longer shown.

Unmount ==
  /\ mounted
  /\ mounted' = FALSE
  /\ IF cameraOpen                               \* the camera effect's cleanup
     THEN CameraCleanup(camStale)
     ELSE UNCHANGED streamVars
  /\ UNCHANGED <<deviceVars, offstageVars, loading, attendance, cameraOpen, snapshot,
                 mediaDevices, uploading, error, locationVars, netPending, saveVars,
                 deleteVars, serverVars>>

\* ---------------------------------------------------------- admin listings

\* Strings that the code takes apart are sequences of characters.
DigitChars == <<"0", "1", "2", "3", "4", "5", "6", "7", "8", "9">>
IsDigit(c) == \E n \in 1..10 : DigitChars[n] = c
DigitValue(c) == (CHOOSE n \in 1..10 : DigitChars[n] = c) - 1

\* A number below 100 printed with two digits, and Number() of two digits.
TwoDigits(n) == <<DigitChars[(n \div 10) + 1], DigitChars[(n % 10) + 1]>>
ToNumber(str) == 10 * DigitValue(str[1]) + DigitValue(str[2])

\* The text HH:mm of an hour and a minute.
HHmm(h, m) == TwoDigits(h) \o <<":">> \o TwoDigits(m)

\* The cutoffs the listings are checked with: the hours and minutes at the
\* ends of the day and around the default, and texts that are not HH:mm.
CutoffHours == {0, 8, 23}
CutoffMinutes == {0, 59}
CutoffTimes == {HHmm(h, m) : h \in CutoffHours, m \in CutoffMinutes}
MalformedCutoffs == {<<"8", ":", "0", "0">>, <<"2", "4", ":", "0", "0">>}

\* The records the listings are checked with.  capturedAt is an instant,
\* kept as its minute of the UTC day, or a text that is no date; timezone is
\* an IANA name, a name Intl does not know, or absent; status is the
\* server-computed status, or absent.
CaptureHours == {0, 7, 8, 23}
CaptureMinutes == {0, 1, 59}
MinutesPerDay == 24 * 60
ZoneOffsets ==
  [z \in {"UTC", "Africa/Lagos", "America/New_York"} |->
     CASE z = "UTC" -> 0
       [] z = "Africa/Lagos" -> 60
       [] z = "America/New_York" -> -300]
TimeZones == {None, Some("Mars/Olympus")} \cup {Some(z) : z \in DOMAIN ZoneOffsets}
Statuses == {None, Some("on-time"), Some("late")}
Records ==
  [id : {<<"rec-", 1>>},
   userId : {"u1"},
   userName : {"Ada"},
   capturedAt : {None} \cup {Some(60 * h + m) : h \in CaptureHours, m \in CaptureMinutes},
   timezone : TimeZones,
   status : Statuses]

\* The engine: ECMA-402 resolved hour12: false to the cycle h24 for a locale
\* whose default cycle is h12 until its 2023 edition, and to h23 since.
HourCycles == {"h23", "h24"}
SystemOffsets == {0, 60}

\* Intl.DateTimeFormat("en-US", {hour: "2-digit", minute: "2-digit",
\* hour12: false, timeZone}).formatToParts(date), for a zone offset minutes
\* east of UTC: the hour and minute parts.
formatToParts(instant, offset) ==
  LET local == (instant + offset + MinutesPerDay) % MinutesPerDay
      hour == local \div 60
  IN [hour |-> TwoDigits(IF hour = 0 /\ hourCycle = "h24" THEN 24 ELSE hour),
      minute |-> TwoDigits(local % 60)]

\* getLocalTimeParts whose catch block formats in UTC.
getLocalTimeParts_FallsBackToUTC(iso, timeZone) ==
  IF iso = None
  THEN [hour |-> 0, minute |-> 0]
  ELSE LET parts ==
             IF timeZone = None
             THEN formatToParts(Get(iso), systemOffset)
             ELSE IF Get(timeZone) \in DOMAIN ZoneOffsets
             THEN formatToParts(Get(iso), ZoneOffsets[Get(timeZone)])
             ELSE formatToParts(Get(iso), 0)
       IN [hour |-> ToNumber(parts.hour), minute |-> ToNumber(parts.minute)]

\* getLocalTimeParts that answers an instant that is no date with the end of
\* the day.
getLocalTimeParts_InvalidAtDayEnd(iso, timeZone) ==
  IF iso = None
  THEN [hour |-> 23, minute |-> 59]
  ELSE LET parts ==
             IF timeZone = None
             THEN formatToParts(Get(iso), systemOffset)
             ELSE IF Get(timeZone) \in DOMAIN ZoneOffsets
             THEN formatToParts(Get(iso), ZoneOffsets[Get(timeZone)])
             ELSE formatToParts(Get(iso), systemOffset)
       IN [hour |-> ToNumber(parts.hour), minute |-> ToNumber(parts.minute)]

getLocalTimeParts(iso, timeZone) ==
  IF iso = None
  THEN [hour |-> 0, minute |-> 0]
  ELSE LET parts ==
             IF timeZone = None
             THEN formatToParts(Get(iso), systemOffset)
             ELSE IF Get(timeZone) \in DOMAIN ZoneOffsets
             THEN formatToParts(Get(iso), ZoneOffsets[Get(timeZone)])
             ELSE formatToParts(Get(iso), systemOffset)   \* RangeError caught
       IN [hour |-> ToNumber(parts.hour), minute |-> ToNumber(parts.minute)]

\* value.match(/^([01]\d|2[0-3]):([0-5]\d)$/)
parseCutoffTime(value) ==
  IF /\ Len(value) = 5
     /\ \/ value[1] \in {"0", "1"} /\ IsDigit(value[2])
        \/ value[1] = "2" /\ value[2] \in {"0", "1", "2", "3"}
     /\ value[3] = ":"
     /\ value[4] \in {"0", "1", "2", "3", "4", "5"}
     /\ IsDigit(value[5])
  THEN Some([hour |-> ToNumber(<<value[1], value[2]>>),
             minute |-> ToNumber(<<value[4], value[5]>>)])
  ELSE None

cutoffValid(cutoffDraft) == parseCutoffTime(cutoffDraft) # None

resolveStatus(item, cutoff) ==
  LET parsed == Coalesce(parseCutoffTime(cutoff), Some([hour |-> 8, minute |-> 0]))
      local == getLocalTimeParts(item.capturedAt, item.timezone)
  IN IF local.hour < Get(parsed).hour THEN "On time"
     ELSE IF local.hour = Get(parsed).hour /\ local.minute <= Get(parsed).minute
     THEN "On time"
     ELSE "Late"

\* UserHistoryPanel
statusLabel(status) == IF status = Some("late") THEN "Late" ELSE "On time"

\* The attendanceRows memo of AdminView, by record.
AttendanceRows(its, cutoff) == [i \in DOMAIN its |-> resolveStatus(its[i], cutoff)]

\* The rows of UserHistoryPanel, by record.
HistoryRows(its) == [i \in DOMAIN its |-> statusLabel(its[i].status)]

\* The roster and the days of several records the listings are checked with:
\* the owner of a record is on the roster or not, and a record is captured
\* before or after the default cutoff.
MaxItems == 2
Users == {[id |-> "u1", name |-> "Ada"], [id |-> "u2", name |-> "Bo"]}
Owners == Users \cup {[id |-> "u3", name |-> "Cy"]}
Rosters ==
  {<<>>} \cup {<<u>> : u \in Users}
         \cup {r \in {<<u, v>> : u \in Users, v \in Users} : r[1] # r[2]}
DayCaptures == {7 * 60, 9 * 60}
DayItem(n, owner, minute) ==
  [id |-> <<"rec-", n>>, userId |-> owner.id, userName |-> owner.name,
   capturedAt |-> Some(minute), timezone |-> Some("UTC"), status |-> None]
DayListings ==
  UNION {{[i \in 1..k |-> DayItem(i, f[i][1], f[i][2])] :
            f \in [1..k -> Owners \X DayCaptures]} : k \in 0..MaxItems}

\* a.name.localeCompare(b.name), for the names of Owners.
NameOrder == <<"Ada", "Bo", "Cy">>
localeCompare(a, b) ==
  (CHOOSE i \in DOMAIN NameOrder : NameOrder[i] = a)
    - (CHOOSE i \in DOMAIN NameOrder : NameOrder[i] = b)

\* Array.prototype.sort by name; the sort is stable.
RECURSIVE sortByName(_)
sortByName(rs) ==
  IF rs = <<>>
  THEN <<>>
  ELSE LET sorted == sortByName(SubSeq(rs, 1, Len(rs) - 1))
           last == rs[Len(rs)]
           k == Cardinality({i \in DOMAIN sorted :
                               localeCompare(sorted[i].name, last.name) <= 0})
       IN SubSeq(sorted, 1, k) \o <<last>> \o SubSeq(sorted, k + 1, Len(sorted))

\* The rows memo of AdminView: the rows of the records, the rows of the roster
\* members without a record, and the rows listed under the filter.
AbsentId(userId) == <<"absent-", userId>>

AdminRows(its, cutoff) ==
  [i \in DOMAIN its |->
     [id |-> its[i].id, name |-> its[i].userName,
      status |-> resolveStatus(its[i], cutoff), raw |-> Some(its[i])]]

\* Every roster member gets a Missing row, with or without a record.
AbsentRows_WholeRoster(its, rost) ==
  [i \in DOMAIN rost |->
     [id |-> AbsentId(rost[i].id), name |-> rost[i].name,
      status |-> "Missing", raw |-> None]]

AbsentRows(its, rost) ==
  LET has(userId) == \E i \in DOMAIN its : its[i].userId = userId
      absent(member) == ~has(member.id)
      missing == SelectSeq(rost, absent)
  IN [i \in DOMAIN missing |->
        [id |-> AbsentId(missing[i].id), name |-> missing[i].name,
         status |-> "Missing", raw |-> None]]

AllRows(its, rost, cutoff) == sortByName(AdminRows(its, cutoff) \o AbsentRows(its, rost))

\* The stats memo of AdminView.
AdminStats(its, attRows, rost) ==
  LET present == Len(its)
      late == Cardinality({i \in DOMAIN attRows : attRows[i] = "Late"})
      missing == IF Len(rost) - present > 0 THEN Len(rost) - present ELSE 0
  IN [present |-> present, late |-> late, missing |-> missing]

Filters == {"all", "on-time", "late", "absent"}

Rows(its, rost, flt, cutoff) ==
  LET onTime(row) == row.status = "On time"
      late(row) == row.status = "Late"
  IN CASE flt = "on-time" -> SelectSeq(AdminRows(its, cutoff), onTime)
       [] flt = "late" -> SelectSeq(AdminRows(its, cutoff), late)
       [] flt = "absent" -> AbsentRows(its, rost)
       [] OTHER -> AllRows(its, rost, cutoff)

\* The statistics of a history.  The server computes them: Math.round of the
\* share of on-time records, as a percentage, and 0 when there is no record.
MaxCount == 3
Round(num, den) == (2 * num + den) \div (2 * den)
ServerStats(onTime, late) ==
  [onTime |-> onTime, late |-> late, total |-> onTime + late,
   punctualityRate |-> IF onTime + late = 0 THEN 0
                       ELSE Round(onTime * 100, onTime + late)]
HistoryStats ==
  {None} \cup {Some(ServerStats(onTime, late)) : onTime \in 0..MaxCount, late \in 0..MaxCount}

\* Statistics of no record with a rate of 100.
NoStats_FullRate == [onTime |-> 0, late |-> 0, total |-> 0, punctualityRate |-> 100]

\* The statistics UserHistoryPanel holds before, or without, the server's.
NoStats == [onTime |-> 0, late |-> 0, total |-> 0, punctualityRate |-> 0]

adminServerVars == <<hourCycle, systemOffset, srvItems, srvUsers, srvStats>>
historyVars == <<historyItems, historyRows, stats>>

\* AdminView and UserHistoryPanel before anything is loaded.
AdminStart ==
  /\ cutoffTime = HHmm(8, 0)
  /\ items = <<>>
  /\ attendanceRows = <<>>
  /\ historyItems = <<>>
  /\ historyRows = <<>>
  /\ roster = <<>>
  /\ filter = "all"
  /\ rows = <<>>
  /\ stats = NoStats

AdminInit ==
  /\ hourCycle \in HourCycles
  /\ systemOffset \in SystemOffsets
  /\ srvItems \in {<<r>> : r \in Records}
  /\ srvUsers = <<>>
  /\ srvStats = None
  /\ srvCutoff \in {None} \cup {Some(c) : c \in CutoffTimes \cup MalformedCutoffs}
  /\ AdminStart

\* The admin listings when they are not shown.
AdminOff ==
  /\ AdminInit
  /\ hourCycle = "h23"
  /\ systemOffset = 0
  /\ srvItems = <<[id |-> <<"rec-", 1>>, userId |-> "u1", userName |-> "Ada",
                   capturedAt |-> None, timezone |-> None, status |-> None]>>
  /\ srvCutoff = None

ListingInit ==
  /\ hourCycle = "h23"
  /\ systemOffset = 0
  /\ srvItems \in DayListings
  /\ srvUsers \in Rosters
  /\ srvStats = None
  /\ srvCutoff = None
  /\ AdminStart

\* The histories the statistics are checked with: of no record or of one.
HistoryInit ==
  /\ hourCycle = "h23"
  /\ systemOffset = 0
  /\ srvItems \in {listing \in DayListings : Len(listing) <= 1}
  /\ srvUsers = <<>>
  /\ srvStats \in HistoryStats
  /\ srvCutoff = None
  /\ AdminStart

\* GET /admin/attendance answered.
AdminLoaded ==
  /\ items' = srvItems
  /\ roster' = srvUsers
  /\ cutoffTime' = IF srvCutoff # None THEN Get(srvCutoff) ELSE cutoffTime
  /\ attendanceRows' = AttendanceRows(items', cutoffTime')
  /\ rows' = Rows(items', roster', filter, cutoffTime')
  /\ UNCHANGED <<deviceVars, traceVars, viewVars, otherVars, adminServerVars, srvCutoff, filter,
                 historyVars>>

\* handleSaveCutoff, with PUT /admin/settings answered: the server holds and
\* answers with the cutoff it was sent.
handleSaveCutoff(cutoffDraft) ==
  /\ cutoffValid(cutoffDraft) /\ cutoffDraft # cutoffTime    \* the button is enabled
  /\ srvCutoff' = Some(cutoffDraft)
  /\ cutoffTime' = cutoffDraft
  /\ attendanceRows' = AttendanceRows(items, cutoffTime')
  /\ rows' = Rows(items, roster, filter, cutoffTime')
  /\ UNCHANGED <<deviceVars, traceVars, viewVars, otherVars, adminServerVars, items, roster, filter,
                 historyVars>>

\* A filter button of AdminView.
setFilter(flt) ==
  /\ filter' = flt
  /\ rows' = Rows(items, roster, filter', cutoffTime)
  /\ UNCHANGED <<deviceVars, traceVars, viewVars, otherVars, adminServerVars, srvCutoff, cutoffTime,
                 items, attendanceRows, roster, historyVars>>

\* GET /admin/users/:id/attendance answered.
HistoryLoaded ==
  /\ historyItems' = srvItems
  /\ historyRows' = HistoryRows(historyItems')
  /\ stats' = Get(Coalesce(srvStats, Some(NoStats)))
  /\ UNCHANGED <<deviceVars, traceVars, viewVars, otherVars, adminServerVars, srvCutoff, cutoffTime,
                 items, attendanceRows, roster, filter, rows>>

\* --- the date of the daily listing

\* Number of dates the admin can select; date 1 is today.
MaxDates == 3
Dates == 1..MaxDates

\* The records the server holds for a date: one record, of that date.
DayRecords(date) == <<DayItem(date, [id |-> "u1", name |-> "Ada"], 7 * 60)>>

\* AdminView is mounted: the load effect has issued the request for today.
DatesInit ==
  /\ selectedDate = 1
  /\ dayPending = {1}
  /\ adminError = ""

\* The date of the listing when it is not changed.
DatesOff ==
  /\ selectedDate = 1
  /\ dayPending = {}
  /\ adminError = ""

\* The date input: the load effect runs again and issues a request for the
\* date; the requests issued before stay in flight.
selectDate(date) ==
  /\ date # selectedDate
  /\ selectedDate' = date
  /\ dayPending' = dayPending \cup {date}
  /\ UNCHANGED <<deviceVars, traceVars, viewVars, adminVars, adminError, authVars>>

\* GET /admin/attendance?date= answered.
DayLoaded(date) ==
  /\ date \in dayPending
  /\ dayPending' = dayPending \ {date}
  /\ items' = DayRecords(date)
  /\ roster' = srvUsers
  /\ cutoffTime' = IF srvCutoff # None THEN Get(srvCutoff) ELSE cutoffTime
  /\ attendanceRows' = AttendanceRows(items', cutoffTime')
  /\ rows' = Rows(items', roster', filter, cutoffTime')
  /\ UNCHANGED <<deviceVars, traceVars, viewVars, adminServerVars, srvCutoff, filter,
                 historyVars, selectedDate, adminError, authVars>>

\* GET /admin/attendance?date= failed.
DayFailed(date, msg) ==
  /\ date \in dayPending
  /\ dayPending' = dayPending \ {date}
  /\ adminError' = msg
  /\ UNCHANGED <<deviceVars, traceVars, viewVars, adminVars, selectedDate, authVars>>

\* ------------------------------------------------------------ hooks/useAuth

\* Tokens are numbered in the order the server issues them; token 0 is the
\* one a previous visit left in localStorage.
MaxLogins == 2
\* Number of logout calls that can await their request at once.
MaxLogouts == 2

\* The user GET /me and the login answer with.
SessionUser == [name |-> "Ada", role |-> "user"]

\* The startup effect of useAuth has run: with no stored token loading is
\* over, with one GET /me is in flight.  The server accepts the stored token
\* or has dropped it.
AuthInit ==
  /\ user = None
  /\ token = None
  /\ stored \in {None, Some(0)}
  /\ authLoading = (stored # None)
  /\ mePending = stored
  /\ submitting = FALSE
  /\ logoutPending = <<>>
  /\ callPending = None
  /\ callError = ""
  /\ issued = 0
  /\ srvSessions \in {{}, {0}}

\* The session when it is not shown.
AuthOff ==
  /\ AuthInit
  /\ stored = None
  /\ srvSessions = {}

\* GET /me answered with the user.
MeLoaded ==
  /\ mePending # None
  /\ Get(mePending) \in srvSessions
  /\ user' = Some(SessionUser)
  /\ token' = mePending
  /\ authLoading' = FALSE
  /\ mePending' = None
  /\ UNCHANGED <<deviceVars, traceVars, viewVars, adminVars, dateVars, stored,
                 submitting, logoutPending, callPending, callError, issued,
                 srvSessions>>

\* GET /me failed, for a token the server does not accept or for any other
\* reason.
MeFailed ==
  /\ mePending # None
  /\ stored' = None
  /\ authLoading' = FALSE
  /\ mePending' = None
  /\ UNCHANGED <<deviceVars, traceVars, viewVars, adminVars, dateVars, user, token,
                 submitting, logoutPending, callPending, callError, issued,
                 srvSessions>>

\* AuthScreen's handleSubmit calling login or signup: AuthScreen is shown and
\* its button is enabled.
handleSubmit ==
  /\ ~authLoading /\ user = None
  /\ ~submitting
  /\ issued < MaxLogins
  /\ submitting' = TRUE
  /\ UNCHANGED <<deviceVars, traceVars, viewVars, adminVars, dateVars, user, token,
                 authLoading, stored, mePending, logoutPending, callPending,
                 callError, issued, srvSessions>>

\* login that keeps the token in memory only.
login_NotPersisted ==
  /\ submitting
  /\ issued' = issued + 1
  /\ srvSessions' = srvSessions \cup {issued'}
  /\ user' = Some(SessionUser)
  /\ token' = Some(issued')
  /\ submitting' = FALSE
  /\ UNCHANGED <<deviceVars, traceVars, viewVars, adminVars, dateVars, authLoading,
                 stored, mePending, logoutPending, callPending, callError>>

\* POST /auth/login or /auth/signup answered with a new token and the user.
login ==
  /\ submitting
  /\ issued' = issued + 1
  /\ srvSessions' = srvSessions \cup {issued'}
  /\ user' = Some(SessionUser)
  /\ token' = Some(issued')
  /\ stored' = Some(issued')
  /\ submitting' = FALSE
  /\ UNCHANGED <<deviceVars, traceVars, viewVars, adminVars, dateVars, authLoading,
                 mePending, logoutPending, callPending, callError>>

\* POST /auth/login or /auth/signup failed: AuthScreen shows the error.
LoginFailed ==
  /\ submitting
  /\ submitting' = FALSE
  /\ UNCHANGED <<deviceVars, traceVars, viewVars, adminVars, dateVars, user, token,
                 authLoading, stored, mePending, logoutPending, callPending,
                 callError, issued, srvSessions>>

\* The end of logout.
ClearSession ==
  /\ user' = None
  /\ token' = None
  /\ stored' = None

\* The Log out button: with a token the call awaits POST /auth/logout, with
\* none it clears the session at once.
logout ==
  /\ ~authLoading /\ user # None
  /\ Len(logoutPending) < MaxLogouts
  /\ IF token # None
     THEN /\ logoutPending' = Append(logoutPending, Get(token))
          /\ UNCHANGED <<user, token, stored>>
     ELSE /\ ClearSession
          /\ UNCHANGED logoutPending
  /\ UNCHANGED <<deviceVars, traceVars, viewVars, adminVars, dateVars, authLoading,
                 mePending, submitting, callPending, callError, issued, srvSessions>>

\* POST /auth/logout of the i-th waiting call settled: answered, and the
\* server has dropped the token, or failed, which the call ignores.
LogoutSettled(i, ok) ==
  /\ i \in DOMAIN logoutPending
  /\ logoutPending' = SubSeq(logoutPending, 1, i - 1)
                        \o SubSeq(logoutPending, i + 1, Len(logoutPending))
  /\ srvSessions' = IF ok THEN srvSessions \ {logoutPending[i]} ELSE srvSessions
  /\ ClearSession
  /\ UNCHANGED <<deviceVars, traceVars, viewVars, adminVars, dateVars, authLoading,
                 mePending, submitting, callPending, callError, issued>>

\* The server drops a token: the session has expired or was ended elsewhere.
Expire(t) ==
  /\ t \in srvSessions
  /\ srvSessions' = srvSessions \ {t}
  /\ UNCHANGED <<deviceVars, traceVars, viewVars, adminVars, dateVars, user, token,
                 authLoading, stored, mePending, submitting, logoutPending,
                 callPending, callError, issued>>

\* The load effect of the view shown for the user: GET /attendance/today is
\* issued with the token.
TodayCall ==
  /\ ~authLoading /\ user # None /\ token # None
  /\ callPending = None
  /\ callPending' = token
  /\ callError' = ""
  /\ UNCHANGED <<deviceVars, traceVars, viewVars, adminVars, dateVars, user, token,
                 authLoading, stored, mePending, submitting, logoutPending, issued,
                 srvSessions>>

\* The call is answered.
TodayAnswered ==
  /\ callPending # None
  /\ Get(callPending) \in srvSessions
  /\ callPending' = None
  /\ UNCHANGED <<deviceVars, traceVars, viewVars, adminVars, dateVars, user, token,
                 authLoading, stored, mePending, submitting, logoutPending,
                 callError, issued, srvSessions>>

\* The call fails authentication: the server does not accept its token.  The
\* catch of the effect shows the message.
TodayUnauthorized(errorBody) ==
  /\ callPending # None
  /\ Get(callPending) \notin srvSessions
  /\ callPending' = None
  /\ callError' = apiError(errorBody)
  /\ UNCHANGED <<deviceVars, traceVars, viewVars, adminVars, dateVars, user, token,
                 authLoading, stored, mePending, submitting, logoutPending, issued,
                 srvSessions>>

\* ---------------------------------------------------------- specifications

Init ==
  env \in ViewEnvs /\ DeviceInit /\ TraceInit /\ ViewInit /\ AdminOff /\ DatesOff /\ AuthOff

Next ==
  \/ TodayLoaded
  \/ \E msg \in ApiErrors : TodayFailed(msg)
  \/ toggleCamera
  \/ capturePhoto
  \/ handleRetake
  \/ CameraStream
  \/ CameraFailed
  \/ \E more \in BOOLEAN : StaleStream(more)
  \/ \E more \in BOOLEAN : StaleFailed(more)
  \/ checkLocation
  \/ \E o \in ViewOutcomes : CheckSettle(o)
  \/ useNetworkLocation
  \/ \E data \in NetResponses : NetLoaded(data)
  \/ \E msg \in ApiErrors : NetFailed(msg)
  \/ handleUploadAndSave
  \/ \E o \in ViewOutcomes : SaveGeoSettle(o)
  \/ \E upload \in UploadResponses : UploadDone(upload)
  \/ \E msg \in ApiErrors : SaveFailed(msg)
  \/ \E echo \in BOOLEAN : SaveDone(echo)
  \/ handleDelete
  \/ DeleteDone
  \/ \E msg \in ApiErrors : DeleteFailed(msg)
  \/ Unmount

Spec == Init /\ [][Next]_vars

NextGeo ==
  \/ DirectCall
  \/ \E o \in DeviceOutcomes : DirectSettle(o)

InitGeo ==
  env \in Envs /\ DeviceInit /\ TraceInit /\ ViewInit /\ AdminOff /\ DatesOff /\ AuthOff

SpecGeo == InitGeo /\ [][NextGeo]_vars

\* The check-in view when it is not shown.
ViewOff ==
  /\ env \in ViewEnvs /\ env.geolocation /\ env.isSecureContext
  /\ DeviceInit
  /\ TraceInit
  /\ ViewInit
  /\ mediaDevices
  /\ todayItems = <<>>

\* The camera and the save of the check-in view, with handleUploadAndSave
\* also called past its button.
NextCall ==
  \/ DirectSave
  \/ toggleCamera
  \/ capturePhoto
  \/ handleRetake
  \/ CameraStream
  \/ CameraFailed
  \/ handleUploadAndSave
  \/ \E o \in ViewOutcomes : SaveGeoSettle(o)
  \/ \E upload \in UploadResponses : UploadDone(upload)
  \/ \E msg \in ApiErrors : SaveFailed(msg)
  \/ \E echo \in BOOLEAN : SaveDone(echo)

InitCall == ViewOff /\ AdminOff /\ DatesOff /\ AuthOff

SpecCall == InitCall /\ [][NextCall]_vars

\* The camera, the save and the delete of the check-in view, where every
\* device request and network request awaited by a save or by a delete
\* eventually settles.
SaveSettles ==
  \/ \E o \in ViewOutcomes : SaveGeoSettle(o)
  \/ \E upload \in UploadResponses : UploadDone(upload)
  \/ \E msg \in ApiErrors : SaveFailed(msg)
  \/ \E echo \in BOOLEAN : SaveDone(echo)

DeleteSettles ==
  \/ DeleteDone
  \/ \E msg \in ApiErrors : DeleteFailed(msg)

NextLive ==
  \/ toggleCamera
  \/ capturePhoto
  \/ handleRetake
  \/ CameraStream
  \/ CameraFailed
  \/ handleUploadAndSave
  \/ SaveSettles
  \/ handleDelete
  \/ DeleteSettles

InitLive == ViewOff /\ AdminOff /\ DatesOff /\ AuthOff

SpecLive ==
  InitLive /\ [][NextLive]_vars /\ WF_vars(SaveSettles) /\ WF_vars(DeleteSettles)

NextDates ==
  \/ \E date \in Dates : selectDate(date)
  \/ \E date \in Dates : DayLoaded(date)
  \/ \E date \in Dates, msg \in ApiErrors : DayFailed(date, msg)

InitDates == ViewOff /\ AdminOff /\ DatesInit /\ AuthOff

SpecDates == InitDates /\ [][NextDates]_vars

NextAuth ==
  \/ MeLoaded
  \/ MeFailed
  \/ handleSubmit
  \/ login
  \/ LoginFailed
  \/ logout
  \/ \E i \in 1..MaxLogouts, ok \in BOOLEAN : LogoutSettled(i, ok)
  \/ \E t \in 0..MaxLogins : Expire(t)
  \/ TodayCall
  \/ TodayAnswered
  \/ \E errorBody \in ErrorBodies : TodayUnauthorized(errorBody)

InitAuth == ViewOff /\ AdminOff /\ DatesOff /\ AuthInit

SpecAuth == InitAuth /\ [][NextAuth]_vars

NextAdmin ==
  \/ AdminLoaded
  \/ \E cutoffDraft \in CutoffTimes \cup MalformedCutoffs : handleSaveCutoff(cutoffDraft)
  \/ HistoryLoaded

InitAdmin == ViewOff /\ AdminInit /\ DatesOff /\ AuthOff

SpecAdmin == InitAdmin /\ [][NextAdmin]_vars

NextListing ==
  \/ AdminLoaded
  \/ \E flt \in Filters : setFilter(flt)

InitListing == ViewOff /\ ListingInit /\ DatesOff /\ AuthOff

SpecListing == InitListing /\ [][NextListing]_vars

NextHistory == HistoryLoaded

InitHistory == ViewOff /\ HistoryInit /\ DatesOff /\ AuthOff

SpecHistory == InitHistory /\ [][NextHistory]_vars

\* ------------------------------------------------------------------ claims
\* C1 .. C6 are stated of one getDeviceLocation call (SpecGeo): gIssued holds
\* the tiers whose request was issued and gErrs the errors they failed with.

IsPermissionDenied(e) == e.code = <<PERMISSION_DENIED>>

\* C1: a permission-denied failure at any tier ends the ladder at once: the
\* tier that failed so is the last one attempted in the call, and the call
\* is rejected with the permission-denied message.
C1_DeniedEndsLadder ==
  \A k \in 1..Len(gErrs) :
    IsPermissionDenied(gErrs[k]) =>
      /\ Len(gIssued) = k
      /\ geoPc["direct"] = 0
      /\ gResult.state = "rejected"
      /\ gResult.message = MsgDenied

\* C1 witness: Tier 1 timed out and Tier 2 was refused permission.
C1_Witness ==
  /\ gErrs = <<ErrTimeout, ErrDenied>>
  /\ gResult.state = "rejected"

\* C2: the tiers are attempted in the order 1, 2, 3, each at most once and
\* each only after the tier before it failed; a timeout or
\* position-unavailable failure of Tier 1 or 2 is followed by the next tier,
\* and after three failures the call has settled with no fourth attempt.
C2_FixedOrder ==
  /\ Len(gIssued) <= 3
  /\ \A i \in 1..Len(gIssued) : gIssued[i] = i
  /\ Len(gIssued) <= Len(gErrs) + 1
  /\ \A k \in 1..Len(gErrs) :
       gErrs[k] \in {ErrTimeout, ErrUnavailable} /\ k < 3 => Len(gIssued) >= k + 1
  /\ Len(gErrs) = 3 => geoPc["direct"] = 0 /\ gResult.state = "rejected"

\* C2 witness: three retryable failures in a row.
C2_Witness ==
  /\ gErrs = <<ErrTimeout, ErrUnavailable, ErrTimeout>>
  /\ gIssued = <<1, 2, 3>>

\* C3: a failure of Tier 1 or Tier 2 that is not a permission denial, a
\* failure of unknown kind included, is followed by an attempt of the next
\* tier.
C3_OtherFailuresEscalate ==
  \A k \in 1..Len(gErrs) :
    k <= 2 /\ ~IsPermissionDenied(gErrs[k]) =>
      /\ Len(gIssued) >= k + 1
      /\ gIssued[k + 1] = k + 1

\* C3 witness: failures of unknown kind at Tier 1 and at Tier 2 led to Tier 3.
C3_Witness ==
  /\ Len(gErrs) >= 2
  /\ gErrs[1] = ErrThrown
  /\ gErrs[2] = ErrUnknownCode
  /\ gIssued = <<1, 2, 3>>

\* The message that belongs to a failure, by its code.
MessageFor(e) ==
  IF e.code = <<PERMISSION_DENIED>> THEN MsgDenied
  ELSE IF e.code = <<POSITION_UNAVAILABLE>> THEN MsgUnavailable
  ELSE IF e.code = <<TIMEOUT>> THEN MsgTimeout
  ELSE MsgUnable

\* C4: the call reports the outcome of the last tier it attempted only: a
\* rejected ladder carries the message of the failure of the last attempted
\* tier, and a resolved one followed the success of the last attempted tier.
C4_LastTierSurfaces ==
  /\ gResult.state = "rejected" /\ gIssued # <<>> =>
       /\ Len(gErrs) = Len(gIssued)
       /\ gResult.message = MessageFor(gErrs[Len(gErrs)])
  /\ gResult.state = "resolved" =>
       /\ Len(gErrs) = Len(gIssued) - 1
       /\ gResult.position # None
       /\ gResult.message = ""
  /\ gResult.state = "pending" => Len(gErrs) = Len(gIssued) - 1

\* C4 witness: the ladder was exhausted by failures of three different kinds.
C4_Witness ==
  /\ gResult.state = "rejected"
  /\ gErrs = <<ErrTimeout, ErrThrown, ErrUnavailable>>

BadContext ==
  \/ ~env.geolocation
  \/ ~env.isSecureContext /\ env.hostname # "localhost"

\* C5: without the geolocation capability, or in an insecure context that is
\* not localhost, a call is rejected at once and no device request is made.
C5_NoDeviceCallInBadContext ==
  BadContext =>
    /\ gIssued = <<>>
    /\ geoPc["direct"] = 0
    /\ watches = {}
    /\ gResult.state \in {"none", "rejected"}
    /\ gResult.state = "rejected" => gResult.message \in {MsgUnsupported, MsgInsecure}

\* C5 witness: a call was made in an insecure context that is not localhost.
C5_Witness ==
  /\ BadContext
  /\ ~env.isSecureContext
  /\ gResult.state = "rejected"

\* C6 as stated: every failure is one of PermissionDenied, Unavailable,
\* Timeout, Unsupported.
C6_FourConditions ==
  gResult.state = "rejected" =>
    gResult.message \in {MsgDenied, MsgUnavailable, MsgTimeout, MsgUnsupported}

\* C6 amended: every failure is one of six conditions: the four above, the
\* insecure-context condition and the generic "unable to fetch" condition.
C6_SixConditions ==
  gResult.state = "rejected" =>
    gResult.message \in {MsgDenied, MsgUnavailable, MsgTimeout, MsgUnsupported,
                         MsgInsecure, MsgUnable}

\* C6 witness: a failure with the generic condition.
C6_Witness ==
  /\ gResult.state = "rejected"
  /\ gResult.message = MsgUnable

\* C7 .. C10 are stated of the check-in view (Spec).

ViewCallers == {"check", "save"}

\* C7 as stated: the Tier 2 watch is cancelled exactly once on every exit
\* path: no watch of a call is registered unless the call awaits Tier 2, a
\* watch is cleared at most once, and no watch is registered once the view
\* has been torn down.
C7_WatchCancelledOnEveryExit ==
  /\ \A c \in ViewCallers : c \in watches => geoPc[c] = 2
  /\ \A c \in ViewCallers : clearCalls[c] <= 1
  /\ ~mounted => watches = {}

\* C8 as stated: at most one geolocation watch is active at any time, and a
\* watch delivers to its call once.
C8_AtMostOneWatch ==
  /\ Cardinality(watches) <= 1
  /\ \A c \in ViewCallers : clearCalls[c] <= 1

\* Which path the coordinates of a held position came from.
FromDevice(l) ==
  \E p \in DeviceFixes : l.latitude = p.latitude /\ l.longitude = p.longitude
FromNetwork(l) ==
  \E d \in NetResponses :
    /\ d.latitude # None /\ d.longitude # None
    /\ l.latitude = Get(d.latitude) /\ l.longitude = Get(d.longitude)

\* C9 as stated: the source tag of the held position reflects the path that
\* produced its coordinates: device coordinates are tagged gps and network
\* coordinates are tagged network.
C9_SourceReflectsPath ==
  location # None =>
    /\ FromDevice(Get(location)) => Get(location).source = "gps"
    /\ FromNetwork(Get(location)) => Get(location).source = "network"

\* C10: a request to the network-geolocation API starts only in a step of
\* the user's network-location action; no completion of the GPS ladder, in a
\* location check or in a save, starts one.
C10_NetworkOnlyOnUserAction ==
  [][(~netPending /\ netPending') => useNetworkLocation]_vars

\* C10 witness: the ladder failed inside a save, and the network request in
\* flight was started by the user afterwards.
C10_Witness ==
  /\ netPending
  /\ error = MsgTimeout
  /\ savePc = "idle"

\* C11 .. C18 are stated of the check-in view (Spec).

\* Both coordinates of a network-location answer are numbers.
HasCoordinates(data) == data.latitude # None /\ data.longitude # None

\* C11: a successful network-location answer that lacks a latitude or a
\* longitude leaves the view with no held position; an answer with both
\* yields a held position with the answer's label and coordinates, tagged
\* network.
C11_NetworkAnswerNotFabricated ==
  [][\A data \in NetResponses :
       NetLoaded(data) =>
         IF HasCoordinates(data)
         THEN /\ location' # None
              /\ Get(location').label = data.label
              /\ Get(location').latitude = Get(data.latitude)
              /\ Get(location').longitude = Get(data.longitude)
              /\ Get(location').source = "network"
         ELSE location' = None]_vars

\* C11 witness: a network-location answer without usable coordinates was
\* received: the source says network and no position is held.
C11_Witness ==
  /\ locationSource = "network"
  /\ location = None
  /\ ~locationChecking

\* C12 as stated: at most one attendance record exists per user and day, and
\* a save is rejected while a record for today exists: no upload and no
\* record creation of a save is in flight while the server holds one.
C12_OneRecordPerDay ==
  /\ Cardinality(srvRecords) <= 1
  /\ savePc \in {"uploading", "creating"} => srvRecords = {}

\* C13 as stated: the camera is opened from Idle only if no attendance
\* record exists for today.
C13_CameraOpensOnlyWithoutRecord ==
  [][(toggleCamera /\ ~cameraOpen /\ cameraOpen') => srvRecords = {}]_vars

\* C14: the record-creation request of a save is issued only in the step in
\* which its upload is answered, with the position the save resolved and the
\* reference that answer carries, and it is the only request of the save
\* then in flight; when the upload fails the save ends with no
\* record-creation request.
C14_UploadThenCreate ==
  [][/\ (savePc # "creating" /\ savePc' = "creating") =>
          /\ savePc = "uploading"
          /\ \E upload \in UploadResponses :
               /\ saveBody' # None
               /\ Get(saveBody').photoUrl = upload.url
               /\ Get(saveBody').photoPublicId = upload.publicId
               /\ Get(saveBody').latitude = Get(saveLoc).latitude
               /\ Get(saveBody').longitude = Get(saveLoc).longitude
     /\ savePc' # "creating" => saveBody' = None
     /\ (savePc = "uploading" /\ savePc' # "uploading") =>
          savePc' \in {"creating", "idle"}]_vars

\* C14 witness: the upload of a save has been answered and its
\* record-creation request is in flight.
C14_Witness ==
  /\ savePc = "creating"
  /\ saveBody # None
  /\ uploading

\* The save is over, nothing of it is in flight, the attendance slot and
\* the captured still are as they were, and a still is held.
SaveAborted ==
  /\ savePc' = "idle"
  /\ saveBody' = None
  /\ uploading' = FALSE
  /\ attendance' = attendance
  /\ snapshot' = snapshot
  /\ snapshot' # None

\* C15: when a save holds no position and getDeviceLocation fails, at its
\* head or when the device's answer ends the ladder in failure, the save is
\* aborted: no upload and no record creation is issued, the attendance slot
\* is untouched and the captured still is kept.
C15_LocationFailureAborts ==
  [][/\ (handleUploadAndSave /\ location = None /\ Preflight(env) # "") => SaveAborted
     /\ \A o \in ViewOutcomes :
          (SaveGeoSettle(o) /\ getDeviceLocation(geoPc["save"], o).state = "rejected")
            => SaveAborted]_vars

\* C15 witness: a save was refused permission by the device: the save is
\* over, its message is shown, the still is held and no record is.
C15_Witness ==
  /\ savePc = "idle"
  /\ error = MsgDenied
  /\ locationError = MsgDenied
  /\ snapshot # None
  /\ attendance = None

\* The device and network operations of the view, and whether one is in
\* flight.
Operations ==
  {"camera", "gps of checkLocation", "gps of save", "network", "today", "upload",
   "create", "delete"}

Pending(op) ==
  CASE op = "camera" -> camPending \/ camStale
    [] op = "gps of checkLocation" -> geoPc["check"] \in 1..3
    [] op = "gps of save" -> geoPc["save"] \in 1..3
    [] op = "network" -> netPending
    [] op = "today" -> loading
    [] op = "upload" -> savePc = "uploading"
    [] op = "create" -> savePc = "creating"
    [] op = "delete" -> delPending

InFlight == {op \in Operations : Pending(op)}

\* C16 as stated: at most one device or network operation of the view is in
\* flight at any time.
C16_OneOperationInFlight == Cardinality(InFlight) <= 1

\* C17: every stream delivered has its tracks stopped when the camera leaves
\* the open state or the stream arrives after that: at most the held stream
\* is live, and none is while the camera is closed, once a still is held, or
\* after the view is torn down.
C17_NoLiveTrackOnceClosed ==
  /\ liveStreams = (IF streamRef THEN 1 ELSE 0)
  /\ (~cameraOpen \/ snapshot # None \/ ~mounted) => liveStreams = 0

\* C17 witness: the view was torn down with the camera open and its stream
\* request unanswered; no track is live.
C17_Witness ==
  /\ ~mounted
  /\ cameraOpen
  /\ camStale
  /\ liveStreams = 0

\* C18 as stated: a still is produced only from Streaming, that is while the
\* camera is open and a stream is held.
C18_StillOnlyFromStreaming ==
  [][(snapshot = None /\ snapshot' # None) => (cameraOpen /\ streamRef)]_vars

\* C19 and C20 are stated of the admin listings (SpecAdmin).

\* The wall-clock minute of the day of a record's capture in the record's
\* zone.
LocalMinute(item) ==
  (Get(item.capturedAt) + ZoneOffsets[Get(item.timezone)] + MinutesPerDay)
    % MinutesPerDay

\* The record has a capture instant and a zone to take its wall-clock time in.
HasLocalTime(item) ==
  /\ item.capturedAt # None
  /\ item.timezone # None
  /\ Get(item.timezone) \in DOMAIN ZoneOffsets

\* C19 as stated: for every cutoff HH:mm and every record with a capture
\* instant and a zone, the status resolved is On time exactly when the local
\* wall-clock time (h, m) of the capture is at or before the cutoff, the
\* cutoff minute included, and Late otherwise.
C19_OnTimeIffAtOrBeforeCutoff ==
  \A i \in DOMAIN items : \A h \in CutoffHours, m \in CutoffMinutes :
    (cutoffTime = HHmm(h, m) /\ HasLocalTime(items[i])) =>
      attendanceRows[i] =
        IF LocalMinute(items[i]) <= 60 * h + m THEN "On time" ELSE "Late"

\* The name a listing shows for a server-computed status.
StatusName(status) == IF status = "late" THEN "Late" ELSE "On time"

\* C20 as stated: in every listing, a record whose status field is set is
\* shown with exactly that status.
C20_ServerStatusShown ==
  /\ \A i \in DOMAIN items :
       items[i].status # None => attendanceRows[i] = StatusName(Get(items[i].status))
  /\ \A i \in DOMAIN historyItems :
       historyItems[i].status # None =>
         historyRows[i] = StatusName(Get(historyItems[i].status))

\* C21 is stated of the daily listing over rosters and days of several
\* records (SpecListing).
HasRecord(member) == \E i \in DOMAIN items : items[i].userId = member.id
MissingRow(member) ==
  \E i \in DOMAIN rows : rows[i].status = "Missing" /\ rows[i].id = AbsentId(member.id)
Members == {roster[i] : i \in DOMAIN roster}

\* C21: a roster member gets a Missing row exactly when the day's records hold
\* no record with the member's user id; a Missing row is the row of no record
\* and is never listed under the on-time or the late filter, whose rows are all
\* On time, respectively Late; a member with a record never gets a Missing row.
C21_MissingIffNoRecord ==
  /\ \A member \in Members :
       /\ filter \in {"all", "absent"} => (MissingRow(member) <=> ~HasRecord(member))
       /\ HasRecord(member) => ~MissingRow(member)
  /\ \A i \in DOMAIN rows :
       /\ rows[i].status = "Missing" <=> rows[i].raw = None
       /\ rows[i].status = "Missing" =>
            \E member \in Members : rows[i].id = AbsentId(member.id) /\ ~HasRecord(member)
       /\ filter = "on-time" => rows[i].status = "On time"
       /\ filter = "late" => rows[i].status = "Late"

\* The listing of a roster of two, one with a record and one without.
C21_Witness ==
  /\ filter = "all"
  /\ \E member \in Members, other \in Members :
       HasRecord(member) /\ ~HasRecord(other) /\ MissingRow(other)

SaveButtonEnabled == mounted /\ snapshot # None /\ attendance = None /\ ~uploading

\* C24: when the upload or the record creation of a save fails, the still and
\* the attendance slot are left as they were, the still is held, the error
\* shown is the error field of the response when it has one, and the save can
\* be made again whenever the slot is empty.
C24_FailureKeepsStill ==
  [][\A errorBody \in ErrorBodies :
       SaveFailed(apiError(errorBody)) =>
         /\ snapshot' = snapshot /\ snapshot # None
         /\ attendance' = attendance
         /\ errorBody.error # None => error' = Get(errorBody.error)
         /\ (mounted /\ attendance = None) => SaveButtonEnabled']_vars

\* A save has failed with the server's message and can be made again.
C24_Witness ==
  /\ SaveButtonEnabled
  /\ loading
  /\ error = "server-provided message"

\* C25: a save that starts with a position held uses it and starts no
\* getDeviceLocation call; a save that starts with none starts one call, at
\* its first tier; and a call on behalf of the save starts in no other step.
C25_LadderOnlyWithoutPosition ==
  [][/\ handleUploadAndSave =>
          IF location # None
          THEN /\ geoPc' = geoPc /\ watches' = watches
               /\ savePc' = "uploading" /\ saveLoc' = location
          ELSE IF Preflight(env) = ""
          THEN savePc' = "locating" /\ geoPc'["save"] = 1 /\ saveLoc' = None
          ELSE savePc' = "idle" /\ error' = Preflight(env) /\ geoPc' = geoPc
     /\ (geoPc["save"] = 0 /\ geoPc'["save"] # 0) =>
          /\ location = None /\ savePc = "idle" /\ savePc' = "locating"
          /\ geoPc'["save"] = 1]_vars

\* A save is locating, with no position held, while the message of an earlier
\* location failure is shown.
C25_Witness ==
  /\ savePc = "locating" /\ geoPc["save"] = 1
  /\ location = None
  /\ locationError # ""

\* C26: when the creation request of a save is answered with a record, the
\* attendance slot holds that record, which is the one the server has stored,
\* and the still is cleared.
C26_SavedRecordShown ==
  [][(savePc = "creating" /\ srvRecords' # srvRecords) =>
       /\ \E echo \in BOOLEAN :
            attendance' =
              Some(CreatedRecord(ServerFreshId(srvRecords), Get(saveBody), echo))
       /\ srvRecords' = srvRecords \cup {Get(attendance').id}
       /\ snapshot' = None]_vars

\* A record created by a save is shown and no still is held.
C26_Witness ==
  /\ attendance # None /\ Get(attendance).photoUrl # ExistingRecord.photoUrl
  /\ Get(attendance).id \in srvRecords
  /\ snapshot = None
  /\ savePc = "idle" /\ ~uploading

\* The camera button is enabled.
CameraButtonEnabled == mounted /\ attendance = None /\ ~uploading

C28_RequestCarriesInstant ==
  saveBody # None =>
    /\ {"locationLabel", "latitude", "longitude", "photoUrl"} \subseteq DOMAIN Get(saveBody)
    /\ "capturedAt" \in DOMAIN Get(saveBody)

\* C29 is stated of one getDeviceLocation call (SpecGeo): gOptions holds the
\* options each request of the call was issued with.
\* C29: the requests of tiers 1 and 2 ask for high accuracy and a fix of age 0,
\* with timeouts of 12 s and 20 s; the request of tier 3 asks for low accuracy
\* with a timeout of 20 s and accepts a fix up to 60 s old.
C29_TierParameters ==
  /\ Len(gOptions) = Len(gIssued)
  /\ \A i \in DOMAIN gIssued :
       LET options == gOptions[i]
       IN /\ gIssued[i] \in {1, 2} =>
               /\ options.enableHighAccuracy
               /\ options.maximumAge = 0
               /\ options.timeout = (IF gIssued[i] = 1 THEN 12 ELSE 20) * 1000
          /\ gIssued[i] = 3 =>
               /\ ~options.enableHighAccuracy
               /\ options.maximumAge = 60 * 1000
               /\ options.timeout = 20 * 1000

\* The requests of all three tiers have been issued.
C29_Witness == gIssued = <<1, 2, 3>> /\ Len(gOptions) = 3

\* C30 is stated of the daily listing (SpecAdmin).
\* The IANA name of the system's zone, and a zone Intl does not know.
SystemZone == CHOOSE z \in DOMAIN ZoneOffsets : ZoneOffsets[z] = systemOffset
Unrecognised(timeZone) == timeZone # None /\ Get(timeZone) \notin DOMAIN ZoneOffsets

\* C30: every record listed is classified On time or Late, whatever its
\* instant, zone and the cutoff are; a record whose zone is unrecognised, or
\* absent, is classified as a record of the same instant in the system's zone.
C30_AlwaysClassified ==
  \A i \in DOMAIN items :
    /\ attendanceRows[i] \in {"On time", "Late"}
    /\ (Unrecognised(items[i].timezone) \/ items[i].timezone = None) =>
         attendanceRows[i] =
           resolveStatus([items[i] EXCEPT !.timezone = Some(SystemZone)], cutoffTime)

\* A record of an unrecognised zone is listed, and its status is not the one
\* of the same instant in UTC.
C30_Witness ==
  /\ items # <<>>
  /\ Unrecognised(items[1].timezone)
  /\ items[1].capturedAt # None
  /\ attendanceRows[1] # resolveStatus([items[1] EXCEPT !.timezone = Some("UTC")], cutoffTime)

\* C39 is stated of the daily listing (SpecAdmin).
\* C39: a record whose capturedAt is no valid instant is classified On time
\* under every cutoff that parses as HH:mm, whatever its zone is.
C39_InvalidInstantOnTime ==
  \A i \in DOMAIN items :
    (items[i].capturedAt = None /\ cutoffValid(cutoffTime)) =>
      attendanceRows[i] = "On time"

\* A record of no valid instant is listed under the cutoff 00:00.
C39_Witness ==
  /\ items # <<>>
  /\ items[1].capturedAt = None
  /\ cutoffTime = HHmm(0, 0)
  /\ attendanceRows = <<"On time">>


\* C37 is stated of the daily listing over rosters and days of several
\* records (SpecListing).
\* C37: the Missing count of the statistics is the number of Missing rows of
\* the listing, i.e. of roster members without a record that day.
C37_MissingCountIsMissingRows ==
  /\ AdminStats(items, attendanceRows, roster).missing =
       Cardinality({member \in Members : ~HasRecord(member)})
  /\ filter \in {"all", "absent"} =>
       AdminStats(items, attendanceRows, roster).missing =
         Cardinality({i \in DOMAIN rows : rows[i].status = "Missing"})

\* C31 and C36 are stated of the session (SpecAuth).
SessionCleared == user = None /\ token = None /\ stored = None

\* C31: the session holds no user and no token, and localStorage no entry,
\* after a logout call has ended, after the startup load has failed, and after
\* any call made with the token has failed authentication.
C31_ClearedOnAuthFailure ==
  [][/\ (Len(logoutPending') < Len(logoutPending)) => SessionCleared'
     /\ MeFailed => SessionCleared'
     /\ \A errorBody \in ErrorBodies :
          TodayUnauthorized(errorBody) => SessionCleared']_vars

\* C36: once loading is over the session holds a user exactly when it holds a
\* token, and localStorage holds the token the session holds.
C36_UserIffTokenPersisted ==
  ~authLoading =>
    /\ user # None <=> token # None
    /\ token # None => stored = token

\* The session of a second login, made after a logout, while a logout call
\* made before is still waiting.
C36_Witness ==
  /\ ~authLoading
  /\ token = Some(2) /\ stored = Some(2) /\ user # None
  /\ logoutPending # <<>>


\* C34 is stated of the daily listing with the date changed by the admin
\* (SpecDates).
\* C34: once no request of the listing is in flight, and none has failed, the
\* records shown are those of the selected date.
C34_LatestSelectionShown ==
  (dayPending = {} /\ adminError = "") => items = DayRecords(selectedDate)

\* The Retake and the Delete buttons are rendered and enabled.
RetakeButtonEnabled == mounted /\ snapshot # None /\ attendance = None /\ ~uploading
DeleteButtonEnabled == mounted /\ attendance # None /\ ~uploading

\* C32: at most one save or delete is in flight; while one is, uploading is
\* true; and while uploading is true the Save, Delete, Retake and camera
\* buttons are disabled, and none of their handlers can start.
C32_OneSaveOrDelete ==
  /\ ~(savePc # "idle" /\ delPending)
  /\ (savePc # "idle" \/ delPending) => uploading
  /\ uploading =>
       /\ ~SaveButtonEnabled /\ ~DeleteButtonEnabled
       /\ ~RetakeButtonEnabled /\ ~CameraButtonEnabled
       /\ ~ENABLED handleUploadAndSave /\ ~ENABLED handleDelete
       /\ ~ENABLED handleRetake /\ ~ENABLED toggleCamera

\* A delete is in flight while a still is held.
C32_Witness ==
  /\ delPending /\ uploading
  /\ snapshot # None
  /\ mounted

\* C33: whenever a position is held, its source field is the locationSource
\* indicator.
C33_SourceIsIndicator ==
  location # None => Get(location).source = locationSource

\* C35 is stated of the saves and deletes of the view whose awaited requests
\* all settle (SpecLive).
\* C35: whenever uploading is true it is eventually false again, whichever
\* step the save or the delete fails at, or if it succeeds.
C35_UploadingEventuallyFalse == uploading ~> ~uploading

\* A save has failed at its location step and uploading is false again.
C35_Witness ==
  /\ ~uploading /\ savePc = "idle"
  /\ error # "" /\ locationError = error
  /\ snapshot # None

\* C38: the camera is never open while a still is held.
C38_CameraOrStill == ~(cameraOpen /\ snapshot # None)

\* A still has been captured and the camera is closed, its tracks stopped.
C38_Witness ==
  /\ snapshot # None
  /\ ~cameraOpen /\ streamRef = FALSE /\ liveStreams = 0

====
